---------------------------- MODULE Spec2Model ----------------------------
(***************************************************************************)
(* A model of cookie-rs' private (authenticated-encryption) child jar,     *)
(* src/secure/private.rs.                                                  *)
(*                                                                         *)
(* Strings and byte buffers are sequences of bytes (0..255); a Rust String *)
(* is the sequence of its UTF-8 bytes.  The parent CookieJar is a map from *)
(* cookie names to optional values.  The random source is a choice among   *)
(* a bounded family of nonces.  Base64 is computed as rustc_serialize      *)
(* computes it.  ring's AES_256_GCM is replaced by a stand-in AEAD with    *)
(* the same interface and lengths: an additive keystream and a 16-byte     *)
(* keyed tag over nonce and ciphertext.                                    *)
(***************************************************************************)
EXTENDS Integers, Sequences, FiniteSets, TLC

VARIABLES
    jar,      \* parent CookieJar: name -> optional cookie value
    pjar,     \* the PrivateJar borrowed from the parent, if any, and its key
    ret,      \* what the last PrivateJar::get returned
    handed,   \* the cookie PrivateJar last handed to the parent (add/remove)
    prev,     \* the add before it, when two adds ran back to back
    prov      \* history: where the parent's value for a name came from

vars == <<jar, pjar, ret, handed, prev, prov>>

---------------------------------------------------------------------------
\* Program constants.

KEY_LEN == 32
NONCE_LEN == 12
TAG_LEN == 16

\* Bounds of the model.

MaxPlainLen == 2
NumNonces == 2

---------------------------------------------------------------------------
\* Input sets.

Names == {"n"}

\* "", "a", "ab", ... and one non-ASCII string ("\u{e9}" = C3 A9).
PlainOfLen(l) == [i \in 1..l |-> 96 + i]
Plains == {PlainOfLen(l) : l \in 0..MaxPlainLen} \cup {<<195, 169>>}

\* Outcomes of SystemRandom::fill on the 12-byte nonce.
NonceNo(k) == [i \in 1..NONCE_LEN |-> (37 * k + 11 * i) % 256]
Nonces == {NonceNo(k) : k \in 1..NumNonces}

\* key = (0..len).collect(), as in the tests; a second key of the right length.
KeyOfLen(l) == [i \in 1..l |-> (i - 1) % 256]
Key1 == KeyOfLen(KEY_LEN)
Key2 == [i \in 1..KEY_LEN |-> IF i = KEY_LEN THEN 200 ELSE i - 1]
GoodKeys == {Key1, Key2}
BadKeys == {KeyOfLen(l) : l \in {0, 16, 31, 33, 64}}

\* Characters an outsider puts into a stored value:
\* LF CR ! - = A _
TamperChars == {10, 13, 33, 45, 61, 65, 95}

None == [some |-> FALSE, v |-> <<>>]
Some(v) == [some |-> TRUE, v |-> v]

---------------------------------------------------------------------------
\* rustc_serialize::base64

\* STANDARD alphabet: index 0..63 -> ASCII.
B64Char(x) ==
    IF x < 26 THEN 65 + x
    ELSE IF x < 52 THEN 97 + (x - 26)
    ELSE IF x < 62 THEN 48 + (x - 52)
    ELSE IF x = 62 THEN 43 ELSE 47

\* [u8]::to_base64(STANDARD): three bytes to four characters, '=' padding,
\* no line breaks.
ToBase64(d) ==
    LET n == Len(d)
        byte(k) == IF k <= n THEN d[k] ELSE 0
        grp(g) == byte(3 * g + 1) * 65536 + byte(3 * g + 2) * 256 + byte(3 * g + 3)
        ch(k) ==
            LET g == (k - 1) \div 4
                j == (k - 1) % 4
                x == IF j = 0 THEN grp(g) \div 262144
                     ELSE IF j = 1 THEN (grp(g) \div 4096) % 64
                     ELSE IF j = 2 THEN (grp(g) \div 64) % 64
                     ELSE grp(g) % 64
            IN  IF j >= 2 /\ 3 * g + j > n THEN 61 ELSE B64Char(x)
    IN  [k \in 1..(4 * ((n + 2) \div 3)) |-> ch(k)]

\* Decoding table of from_base64: 0..63 a value (both the standard and the
\* URL-safe alphabet), 64 a newline (skipped), 65 '=', 66 invalid.
B64Code(c) ==
    IF c >= 65 /\ c <= 90 THEN c - 65
    ELSE IF c >= 97 /\ c <= 122 THEN c - 71
    ELSE IF c >= 48 /\ c <= 57 THEN c + 4
    ELSE IF c = 43 \/ c = 45 THEN 62
    ELSE IF c = 47 \/ c = 95 THEN 63
    ELSE IF c = 13 \/ c = 10 THEN 64
    ELSE IF c = 61 THEN 65
    ELSE 66

\* First loop of from_base64: up to the first '=' (or the end).  buf is a
\* u32 that is shifted left by 6 per character and never cleared; only its
\* bits 6..29 are ever read, so the model keeps buf modulo 2^30.
RECURSIVE B64Loop(_, _, _, _, _)
B64Loop(s, i, r, buf, modulus) ==
    IF i > Len(s) THEN [ok |-> TRUE, r |-> r, buf |-> buf, modulus |-> modulus, next |-> i]
    ELSE LET code == B64Code(s[i]) IN
         IF code = 64 THEN B64Loop(s, i + 1, r, buf, modulus)
         ELSE IF code = 65
              THEN [ok |-> TRUE, r |-> r, buf |-> buf, modulus |-> modulus, next |-> i + 1]
         ELSE IF code = 66
              THEN [ok |-> FALSE, r |-> r, buf |-> buf, modulus |-> modulus, next |-> i]
         ELSE LET b == ((buf + code) % 16777216) * 64 IN
              IF modulus = 3
              THEN B64Loop(s, i + 1,
                           r \o << (b \div 4194304) % 256,
                                   (b \div 16384) % 256,
                                   (b \div 64) % 256 >>,
                           b, 0)
              ELSE B64Loop(s, i + 1, r, b, modulus + 1)

\* str::from_base64: the loop, then only '=', CR, LF may follow, then the
\* leftover characters give one or two more bytes.
FromBase64(s) ==
    LET st == B64Loop(s, 1, <<>>, 0, 0)
        restOk == \A k \in st.next..Len(s) : s[k] \in {61, 13, 10}
    IN  IF ~st.ok \/ ~restOk THEN [ok |-> FALSE, bytes |-> <<>>]
        ELSE IF st.modulus = 2
             THEN [ok |-> TRUE, bytes |-> st.r \o << (st.buf \div 1024) % 256 >>]
        ELSE IF st.modulus = 3
             THEN [ok |-> TRUE,
                   bytes |-> st.r \o << (st.buf \div 65536) % 256, (st.buf \div 256) % 256 >>]
        ELSE IF st.modulus = 0 THEN [ok |-> TRUE, bytes |-> st.r]
        ELSE [ok |-> FALSE, bytes |-> <<>>]

---------------------------------------------------------------------------
\* std::str::from_utf8

RECURSIVE ValidUtf8From(_, _)
ValidUtf8From(b, i) ==
    LET n == Len(b)
        cont(k) == k <= n /\ b[k] >= 128 /\ b[k] <= 191
        in(k, lo, hi) == k <= n /\ b[k] >= lo /\ b[k] <= hi
    IN  IF i > n THEN TRUE
        ELSE IF b[i] < 128 THEN ValidUtf8From(b, i + 1)
        ELSE IF b[i] >= 194 /\ b[i] <= 223
             THEN cont(i + 1) /\ ValidUtf8From(b, i + 2)
        ELSE IF b[i] = 224
             THEN in(i + 1, 160, 191) /\ cont(i + 2) /\ ValidUtf8From(b, i + 3)
        ELSE IF (b[i] >= 225 /\ b[i] <= 236) \/ b[i] = 238 \/ b[i] = 239
             THEN cont(i + 1) /\ cont(i + 2) /\ ValidUtf8From(b, i + 3)
        ELSE IF b[i] = 237
             THEN in(i + 1, 128, 159) /\ cont(i + 2) /\ ValidUtf8From(b, i + 3)
        ELSE IF b[i] = 240
             THEN in(i + 1, 144, 191) /\ cont(i + 2) /\ cont(i + 3) /\ ValidUtf8From(b, i + 4)
        ELSE IF b[i] >= 241 /\ b[i] <= 243
             THEN cont(i + 1) /\ cont(i + 2) /\ cont(i + 3) /\ ValidUtf8From(b, i + 4)
        ELSE IF b[i] = 244
             THEN in(i + 1, 128, 143) /\ cont(i + 2) /\ cont(i + 3) /\ ValidUtf8From(b, i + 4)
        ELSE FALSE

FromUtf8(b) == IF ValidUtf8From(b, 1) THEN [ok |-> TRUE, v |-> b] ELSE [ok |-> FALSE, v |-> <<>>]

---------------------------------------------------------------------------
\* ring::aead with ALGO = AES_256_GCM, as a stand-in AEAD: same key, nonce
\* and tag lengths, ciphertext as long as the plaintext, tag over
\* (key, nonce, ciphertext); associated data is always empty.

RECURSIVE Mix(_, _)
Mix(s, i) == IF i = 0 THEN 0 ELSE (Mix(s, i - 1) + (2 * i + 1) * s[i]) % 256

KeyStream(key, nonce, i) ==
    (key[((i - 1) % KEY_LEN) + 1] + 3 * nonce[((i - 1) % NONCE_LEN) + 1]
        + Mix(key, KEY_LEN) + 5 * Mix(nonce, NONCE_LEN) + 7 * i) % 256

AeadTag(key, nonce, ct) ==
    [j \in 1..TAG_LEN |->
        (key[j] + 3 * key[j + TAG_LEN] + (2 * j + 1) * Mix(key, KEY_LEN)
            + nonce[((j - 1) % NONCE_LEN) + 1] + (4 * j + 1) * Mix(nonce, NONCE_LEN)
            + (6 * j + 1) * Mix(ct, Len(ct)) + j * Len(ct) + 29) % 256]

\* seal_in_place(&key, nonce, in_out, overhead, &[]): the plaintext prefix
\* of in_out becomes ciphertext, the tag follows; returns their length.
SealInPlace(key, nonce, plain) ==
    LET ct == [i \in 1..Len(plain) |-> (plain[i] + KeyStream(key, nonce, i)) % 256]
    IN  ct \o AeadTag(key, nonce, ct)

\* open_in_place(&key, nonce, 0, sealed, &[]): verifies the tag and decrypts
\* in place; Ok(out_len) with the plaintext in in_out[..out_len], or Err with
\* the buffer wiped.
OpenInPlace(key, nonce, sealed) ==
    LET n == Len(sealed) - TAG_LEN
        ct == SubSeq(sealed, 1, n)
        tag == SubSeq(sealed, n + 1, n + TAG_LEN)
        plain == [i \in 1..n |-> (ct[i] - KeyStream(key, nonce, i)) % 256]
    IN  IF n < 0 THEN [ok |-> FALSE, out_len |-> 0, in_out |-> [i \in 1..Len(sealed) |-> 0]]
        ELSE IF tag # AeadTag(key, nonce, ct)
             THEN [ok |-> FALSE, out_len |-> n, in_out |-> [i \in 1..Len(sealed) |-> 0]]
        ELSE [ok |-> TRUE, out_len |-> n, in_out |-> plain \o tag]

---------------------------------------------------------------------------
\* The parent CookieJar: lookup, insert, delete by name.

ParentGet(j, name) == j[name]
ParentAdd(j, cookie) == [j EXCEPT ![cookie.name] = Some(cookie.value)]
ParentRemove(j, cookie) == [j EXCEPT ![cookie.name] = None]

---------------------------------------------------------------------------
\* src/secure/private.rs

NoJar == [state |-> "none", key |-> <<>>]

Err(msg) == [ok |-> FALSE, v |-> <<>>, err |-> msg]
Ok(v) == [ok |-> TRUE, v |-> v, err |-> ""]

\* Mutant of private: the length test as an upper bound only.
private_AcceptsShort(key) ==
    IF Len(key) > KEY_LEN
    THEN [state |-> "panicked", key |-> key]
    ELSE [state |-> "live", key |-> key]

\* CookieJar::private: panics unless the key is KEY_LEN bytes long.
private(key) ==
    IF Len(key) # KEY_LEN
    THEN [state |-> "panicked", key |-> key]
    ELSE [state |-> "live", key |-> key]

\* Mutant of unseal: the whole opened buffer is taken as the text, not
\* its first out_len bytes.
unseal_NoSlice(key, value) ==
    LET dec == FromBase64(value)
        data == dec.bytes
        nonce == SubSeq(data, 1, NONCE_LEN)
        sealed == SubSeq(data, NONCE_LEN + 1, Len(data))
        opened == OpenInPlace(key, nonce, sealed)
        text == FromUtf8(opened.in_out)
    IN  IF ~dec.ok THEN Err("bad base64 value")
        ELSE IF Len(data) <= NONCE_LEN THEN Err("length of decoded data is <= NONCE_LEN")
        ELSE IF ~opened.ok THEN Err("invalid key/nonce/value: bad seal")
        ELSE IF ~text.ok THEN Err("bad unsealed utf8")
        ELSE Ok(text.v)

\* Mutant of unseal: the result of open_in_place is not checked.
unseal_NoVerify(key, value) ==
    LET dec == FromBase64(value)
        data == dec.bytes
        nonce == SubSeq(data, 1, NONCE_LEN)
        sealed == SubSeq(data, NONCE_LEN + 1, Len(data))
        opened == OpenInPlace(key, nonce, sealed)
        text == FromUtf8(SubSeq(opened.in_out, 1, opened.out_len))
    IN  IF ~dec.ok THEN Err("bad base64 value")
        ELSE IF Len(data) <= NONCE_LEN THEN Err("length of decoded data is <= NONCE_LEN")
        ELSE IF ~text.ok THEN Err("bad unsealed utf8")
        ELSE Ok(text.v)

\* Mutant of unseal: bytes that are not UTF-8 are replaced (U+FFFD), as
\* String::from_utf8_lossy does, instead of being refused.
unseal_Lossy(key, value) ==
    LET dec == FromBase64(value)
        data == dec.bytes
        nonce == SubSeq(data, 1, NONCE_LEN)
        sealed == SubSeq(data, NONCE_LEN + 1, Len(data))
        opened == OpenInPlace(key, nonce, sealed)
        text == FromUtf8(SubSeq(opened.in_out, 1, opened.out_len))
    IN  IF ~dec.ok THEN Err("bad base64 value")
        ELSE IF Len(data) <= NONCE_LEN THEN Err("length of decoded data is <= NONCE_LEN")
        ELSE IF ~opened.ok THEN Err("invalid key/nonce/value: bad seal")
        ELSE IF ~text.ok THEN Ok(<<239, 191, 189>>)
        ELSE Ok(text.v)

\* PrivateJar::unseal
unseal(key, value) ==
    LET dec == FromBase64(value)
        data == dec.bytes
        nonce == SubSeq(data, 1, NONCE_LEN)
        sealed == SubSeq(data, NONCE_LEN + 1, Len(data))
        opened == OpenInPlace(key, nonce, sealed)
        text == FromUtf8(SubSeq(opened.in_out, 1, opened.out_len))
    IN  IF ~dec.ok THEN Err("bad base64 value")
        ELSE IF Len(data) <= NONCE_LEN THEN Err("length of decoded data is <= NONCE_LEN")
        ELSE IF ~opened.ok THEN Err("invalid key/nonce/value: bad seal")
        ELSE IF ~text.ok THEN Err("bad unsealed utf8")
        ELSE Ok(text.v)

\* Mutant of get: the cookie is returned whether or not its value unsealed.
get_ReturnsAnyway(j, key, name) ==
    LET cookie_ref == ParentGet(j, name)
        value == unseal(key, cookie_ref.v)
    IN  IF cookie_ref.some
        THEN (IF value.ok THEN Some(value.v) ELSE Some(cookie_ref.v))
        ELSE None

\* PrivateJar::get: the parent's cookie with its value unsealed, or None.
get(j, key, name) ==
    LET cookie_ref == ParentGet(j, name)
        value == unseal(key, cookie_ref.v)
    IN  IF cookie_ref.some /\ value.ok THEN Some(value.v) ELSE None

\* Mutant of seal: the random fill goes to a copy, the nonce stays zero.
seal_ZeroNonce(key, cookie_val, rnd) ==
    LET nonce == [i \in 1..NONCE_LEN |-> 0]
        out == SealInPlace(key, nonce, cookie_val)
    IN  [output_len |-> Len(out), sealed_value |-> ToBase64(nonce \o out)]

\* Mutant of seal: the buffer is cut at output_len, not NONCE_LEN + output_len.
seal_ShortCut(key, cookie_val, rnd) ==
    LET out == SealInPlace(key, rnd, cookie_val)
    IN  [output_len |-> Len(out),
         sealed_value |-> ToBase64(SubSeq(rnd \o out, 1, Len(out)))]

\* PrivateJar::add up to the call of the parent: the buffer
\* [nonce | cookie value | overhead] after the random fill and the seal, its
\* output length, and the Base64 text that becomes the cookie's value.
\* rnd is what SystemRandom::fill wrote into the nonce.
seal(key, cookie_val, rnd) ==
    LET overhead == TAG_LEN
        zeros == [i \in 1..(NONCE_LEN + Len(cookie_val) + overhead) |-> 0]
        nonce == rnd
        out == SealInPlace(key, nonce, cookie_val)
        output_len == Len(out)
        data == nonce \o out \o SubSeq(zeros, NONCE_LEN + output_len + 1, Len(zeros))
    IN  [output_len |-> output_len,
         sealed_value |-> ToBase64(SubSeq(data, 1, NONCE_LEN + output_len))]

\* seal tabulated over the model's inputs.
Sealed == [k \in GoodKeys, p \in Plains, r \in Nonces |-> seal(k, p, r)]

\* Mutant of add_cookie: the sealed value is never set on the cookie.
add_cookie_Unsealed(key, cookie, rnd) == cookie

\* PrivateJar::add, cookie.set_value(sealed_value): the cookie handed to the
\* parent's add.
add_cookie(key, cookie, rnd) ==
    LET s == IF <<key, cookie.value, rnd>> \in DOMAIN Sealed
             THEN Sealed[key, cookie.value, rnd]
             ELSE seal(key, cookie.value, rnd)
    IN  [name |-> cookie.name, value |-> s.sealed_value]

\* PrivateJar::add: the parent jar afterwards.
add(j, key, cookie, rnd) == ParentAdd(j, add_cookie(key, cookie, rnd))

\* PrivateJar::remove: the cookie handed to the parent's remove.
remove_cookie(key, cookie) == cookie

\* Mutant of remove: the parent's add is called in place of its remove.
remove_CallsAdd(j, key, cookie) == ParentAdd(j, remove_cookie(key, cookie))

\* PrivateJar::remove: the parent jar afterwards.
remove(j, key, cookie) == ParentRemove(j, remove_cookie(key, cookie))

---------------------------------------------------------------------------
\* State machine.

Idle == [op |-> "idle", name |-> "", r |-> None, key |-> <<>>]
NoHand == [op |-> "none", name |-> "", value |-> <<>>, arg |-> <<>>,
           key |-> <<>>, nonce |-> <<>>]
NoProv == [kind |-> "absent", key |-> <<>>, plain |-> <<>>, base |-> <<>>,
           at |-> 0, ch |-> 0]

\* Values written to the parent directly that no add produced: empty, plain
\* text, not base64, 12 and 13 decoded bytes, a payload with a zero tag, and
\* a payload another holder of Key1 sealed over bytes that are not UTF-8.
RawValues ==
    { <<>>,
      <<116, 101, 120, 116>>,
      <<33>>,
      ToBase64([i \in 1..NONCE_LEN |-> 0]),
      ToBase64([i \in 1..(NONCE_LEN + 1) |-> 0]),
      ToBase64(NonceNo(1) \o [i \in 1..TAG_LEN |-> 0]),
      ToBase64(NonceNo(1) \o SealInPlace(Key1, NonceNo(1), <<255>>)) }

Init ==
    /\ jar = [n \in Names |-> None]
    /\ pjar = NoJar
    /\ ret = Idle
    /\ handed = NoHand
    /\ prev = NoHand
    /\ prov = [n \in Names |-> NoProv]

\* let private_jar = jar.private(&key);
Private(key) ==
    /\ pjar.state = "none"
    /\ pjar' = private(key)
    /\ UNCHANGED <<jar, ret, handed, prev, prov>>

\* The PrivateJar goes out of scope and the parent is free again.
Drop ==
    /\ pjar.state = "live"
    /\ pjar' = NoJar
    /\ ret' = Idle
    /\ UNCHANGED <<jar, handed, prev, prov>>

\* private_jar.get(name)
Get(name) ==
    /\ pjar.state = "live"
    /\ ret' = [op |-> "get", name |-> name, r |-> get(jar, pjar.key, name), key |-> pjar.key]
    /\ UNCHANGED <<jar, pjar, handed, prev, prov>>

\* private_jar.add(Cookie::new(name, plain))
Add(name, plain, rnd) ==
    LET cookie == add_cookie(pjar.key, [name |-> name, value |-> plain], rnd) IN
    /\ pjar.state = "live"
    /\ jar' = add(jar, pjar.key, [name |-> name, value |-> plain], rnd)
    /\ handed' = [op |-> "add", name |-> cookie.name, value |-> cookie.value, arg |-> plain,
                  key |-> pjar.key, nonce |-> rnd]
    /\ prev' = IF handed.op = "add" THEN handed ELSE NoHand
    /\ prov' = [prov EXCEPT ![name] = [kind |-> "sealed", key |-> pjar.key, plain |-> plain,
                                       base |-> cookie.value, at |-> 0, ch |-> 0]]
    /\ ret' = Idle
    /\ UNCHANGED pjar

\* private_jar.remove(Cookie::named(name)), or with a value set
Remove(name, value) ==
    LET cookie == remove_cookie(pjar.key, [name |-> name, value |-> value]) IN
    /\ pjar.state = "live"
    /\ jar' = remove(jar, pjar.key, [name |-> name, value |-> value])
    /\ handed' = [NoHand EXCEPT !.op = "remove", !.name = cookie.name,
                                !.value = cookie.value, !.arg = value, !.key = pjar.key]
    /\ prev' = NoHand
    /\ prov' = [prov EXCEPT ![name] = IF prov[name].kind = "sealed"
                                       THEN [prov[name] EXCEPT !.kind = "removed"]
                                       ELSE [NoProv EXCEPT !.kind = "removed"]]
    /\ ret' = Idle
    /\ UNCHANGED pjar

\* jar.add(Cookie::new(name, value)) on the parent itself
DirectAdd(name, value) ==
    /\ pjar.state = "none"
    /\ jar' = ParentAdd(jar, [name |-> name, value |-> value])
    /\ prov' = [prov EXCEPT ![name] = [NoProv EXCEPT !.kind = "raw"]]
    /\ handed' = NoHand
    /\ prev' = NoHand
    /\ UNCHANGED <<pjar, ret>>

\* jar.add(Cookie::new(name, jar.get(name).value() + ch)) on a sealed value
TamperAppend(name, ch) ==
    /\ pjar.state = "none"
    /\ prov[name].kind = "sealed"
    /\ jar' = ParentAdd(jar, [name |-> name, value |-> Append(jar[name].v, ch)])
    /\ prov' = [prov EXCEPT ![name].kind = "appended", ![name].ch = ch]
    /\ handed' = NoHand
    /\ prev' = NoHand
    /\ UNCHANGED <<pjar, ret>>

\* The sealed value put back with the character at one position replaced.
TamperChange(name, at, ch) ==
    /\ pjar.state = "none"
    /\ prov[name].kind = "sealed"
    /\ at \in 1..Len(jar[name].v)
    /\ jar[name].v[at] # ch
    /\ jar' = ParentAdd(jar, [name |-> name, value |-> [jar[name].v EXCEPT ![at] = ch]])
    /\ prov' = [prov EXCEPT ![name].kind = "changed", ![name].at = at, ![name].ch = ch]
    /\ handed' = NoHand
    /\ prev' = NoHand
    /\ UNCHANGED <<pjar, ret>>

MaxEncodedLen == 4 * ((NONCE_LEN + MaxPlainLen + TAG_LEN + 2) \div 3)

Next ==
    \/ \E key \in GoodKeys \cup BadKeys : Private(key)
    \/ Drop
    \/ \E name \in Names : Get(name)
    \/ \E name \in Names, plain \in Plains, rnd \in Nonces : Add(name, plain, rnd)
    \/ \E name \in Names, value \in {<<>>, <<97>>} : Remove(name, value)
    \/ \E name \in Names, value \in RawValues : DirectAdd(name, value)
    \/ \E name \in Names, ch \in TamperChars : TamperAppend(name, ch)
    \/ \E name \in Names, at \in 1..MaxEncodedLen, ch \in TamperChars : TamperChange(name, at, ch)

Spec == Init /\ [][Next]_vars


---------------------------------------------------------------------------
\* Properties.

\* The stored value of a name, decoded.
Decoded(name) == FromBase64(jar[name].v)

\* C1 (round trip): when the parent's value for a name is what add stored
\* for plaintext P under key K and has not been written since, get through
\* a private jar with the same key returns a cookie whose value is P.
C1_RoundTrip ==
    (ret.op = "get" /\ prov[ret.name].kind = "sealed" /\ prov[ret.name].key = ret.key)
        => ret.r = Some(prov[ret.name].plain)

C1_Witness ==
    /\ ret.op = "get"
    /\ prov[ret.name].kind = "sealed"
    /\ prov[ret.name].key = ret.key
    /\ prov[ret.name].plain = <<>>
    /\ ret.r = Some(<<>>)

\* C2 (eager key length check): private yields a jar if and only if the key
\* is KEY_LEN bytes long and panics otherwise, the parent is left as it was,
\* nothing runs after the panic, and get/add/remove run only on a jar whose
\* key has KEY_LEN bytes.
C2_KeyLengthEager ==
    [][ /\ pjar.state # "panicked"
        /\ (pjar.state = "none" /\ pjar'.state # "none")
              => /\ jar' = jar
                 /\ (pjar'.state = "live") <=> (Len(pjar'.key) = KEY_LEN)
                 /\ (pjar'.state = "panicked") <=> (Len(pjar'.key) # KEY_LEN)
        /\ ((ret' # ret /\ ret'.op = "get") \/ (handed' # handed /\ handed'.op # "none"))
              => (pjar.state = "live" /\ Len(pjar.key) = KEY_LEN) ]_vars

C2_Witness ==
    /\ pjar.state = "panicked"
    /\ Len(pjar.key) = KEY_LEN - 1
    /\ jar = [n \in Names |-> None]

\* C3 (plaintext never persisted): after add of a cookie with value P the
\* parent holds the cookie add handed over, whose value is the Base64 text
\* of nonce, ciphertext and tag, and is not P.
C3_PlaintextNotPersisted ==
    handed.op = "add"
        => /\ jar[handed.name] = Some(handed.value)
           /\ handed.value # handed.arg
           /\ handed.value =
                ToBase64(handed.nonce \o SealInPlace(handed.key, handed.nonce, handed.arg))

C3_Witness ==
    /\ handed.op = "add"
    /\ handed.arg = <<97, 98>>
    /\ jar[handed.name].some
    /\ jar[handed.name].v # <<97, 98>>

\* C4 as claimed: after add, appending any character to the stored value
\* makes get return none, and the parent keeps the corrupted value.
C4_AppendAnyChar ==
    (ret.op = "get" /\ prov[ret.name].kind = "appended" /\ prov[ret.name].key = ret.key)
        => /\ ret.r = None
           /\ jar[ret.name] = Some(Append(prov[ret.name].base, prov[ret.name].ch))

\* C4 (amended): after add, appending any character other than '=', CR or
\* LF to the stored value makes get return none; appending '=', CR or LF
\* (which from_base64 skips at the end) leaves get returning the original
\* plaintext; in both cases the parent keeps the value with the character
\* appended.
C4_AppendChar ==
    (ret.op = "get" /\ prov[ret.name].kind = "appended" /\ prov[ret.name].key = ret.key)
        => /\ jar[ret.name] = Some(Append(prov[ret.name].base, prov[ret.name].ch))
           /\ prov[ret.name].ch \notin {61, 13, 10} => ret.r = None
           /\ prov[ret.name].ch \in {61, 13, 10} => ret.r = Some(prov[ret.name].plain)

C4_Witness ==
    /\ ret.op = "get"
    /\ prov[ret.name].kind = "appended"
    /\ prov[ret.name].key = ret.key
    /\ prov[ret.name].ch = 33
    /\ ret.r = None
    /\ jar[ret.name].some

\* C5 as claimed: changing any single character of the stored text to a
\* different one makes get (same key) return none.
C5_AnyByteChange ==
    (ret.op = "get" /\ prov[ret.name].kind = "changed" /\ prov[ret.name].key = ret.key)
        => ret.r = None

\* C5 (amended): changing a single character of the stored text makes get
\* (same key) return none whenever the changed text no longer decodes to
\* the bytes of the sealed payload; a change that decodes to the same bytes
\* ('+' to '-', '/' to '_', a padding '=' to CR or LF, unused low bits of
\* the last character) leaves get returning the original plaintext.
C5_ByteChange ==
    (ret.op = "get" /\ prov[ret.name].kind = "changed" /\ prov[ret.name].key = ret.key)
        => IF Decoded(ret.name) = FromBase64(prov[ret.name].base)
           THEN ret.r = Some(prov[ret.name].plain)
           ELSE ret.r = None

C5_Witness ==
    /\ ret.op = "get"
    /\ prov[ret.name].kind = "changed"
    /\ prov[ret.name].key = ret.key
    /\ Decoded(ret.name).ok
    /\ Len(Decoded(ret.name).bytes) = Len(FromBase64(prov[ret.name].base).bytes)
    /\ Decoded(ret.name) # FromBase64(prov[ret.name].base)
    /\ ret.r = None

\* C6 (key sensitivity): a value add stored under one key is not readable
\* through a private jar with a different key: get returns none.
C6_KeySensitivity ==
    (ret.op = "get" /\ prov[ret.name].kind = "sealed" /\ prov[ret.name].key # ret.key)
        => /\ ret.r = None
           /\ unseal(ret.key, jar[ret.name].v).err = "invalid key/nonce/value: bad seal"

C6_Witness ==
    /\ ret.op = "get"
    /\ prov[ret.name].kind = "sealed"
    /\ prov[ret.name].key = Key1
    /\ ret.key = Key2
    /\ ret.r = None

\* C7 (no garbled values, collapsed errors): get returns none or the
\* plaintext that was sealed under the jar's key into the stored value; it
\* returns none when the name is absent, the value is not Base64, decodes to
\* NONCE_LEN bytes or fewer, fails the AEAD check, or opens to bytes that
\* are not UTF-8.
C7_NoGarbledValues ==
    ret.op = "get"
        => LET c == jar[ret.name]
               p == prov[ret.name]
               d == Decoded(ret.name)
               o == OpenInPlace(ret.key, SubSeq(d.bytes, 1, NONCE_LEN),
                                SubSeq(d.bytes, NONCE_LEN + 1, Len(d.bytes)))
           IN  /\ ret.r.some => /\ p.kind \in {"sealed", "appended", "changed"}
                                /\ p.key = ret.key
                                /\ ret.r.v = p.plain
               /\ (\/ ~c.some
                   \/ ~d.ok
                   \/ Len(d.bytes) <= NONCE_LEN
                   \/ ~o.ok
                   \/ ~FromUtf8(SubSeq(o.in_out, 1, o.out_len)).ok) => ret.r = None

C7_Witness ==
    /\ ret.op = "get"
    /\ ret.r = None
    /\ jar[ret.name].some
    /\ Decoded(ret.name).ok
    /\ Len(Decoded(ret.name).bytes) > NONCE_LEN
    /\ LET d == Decoded(ret.name).bytes
           o == OpenInPlace(ret.key, SubSeq(d, 1, NONCE_LEN), SubSeq(d, NONCE_LEN + 1, Len(d)))
       IN  o.ok /\ ~FromUtf8(SubSeq(o.in_out, 1, o.out_len)).ok

\* C8 (remove): remove hands its cookie to the parent's remove as it got
\* it; afterwards the parent has no cookie of that name and get returns
\* none.
C8_Remove ==
    /\ handed.op = "remove" => (jar[handed.name] = None /\ handed.value = handed.arg)
    /\ (ret.op = "get" /\ prov[ret.name].kind = "removed")
          => (ret.r = None /\ jar[ret.name] = None)

C8_Witness ==
    /\ ret.op = "get"
    /\ prov[ret.name].kind = "removed"
    /\ prov[ret.name].base # <<>>
    /\ handed.op = "remove"
    /\ ret.r = None
    /\ jar[ret.name] = None

\* C9 as claimed: two adds of the same plaintext under the same key store
\* two different values.
C9_AlwaysFresh ==
    (handed.op = "add" /\ prev.op = "add" /\ handed.key = prev.key /\ handed.arg = prev.arg)
        => handed.value # prev.value

\* C9 (amended): two adds of the same plaintext under the same key store
\* different values exactly when the random source gave them different
\* nonces; the code keeps no record of used nonces.
C9_FreshWhenNoncesDiffer ==
    (handed.op = "add" /\ prev.op = "add" /\ handed.key = prev.key /\ handed.arg = prev.arg)
        => (handed.value # prev.value <=> handed.nonce # prev.nonce)

C9_Witness ==
    /\ handed.op = "add"
    /\ prev.op = "add"
    /\ handed.key = prev.key
    /\ handed.arg = prev.arg
    /\ handed.nonce # prev.nonce
    /\ handed.value # prev.value

\* C10 (payload layout): the value add stores decodes to NONCE_LEN +
\* output_len bytes, more than NONCE_LEN, that begin with the nonce add
\* drew and continue with what seal_in_place produced; unseal does not
\* refuse it for its length.
C10_PayloadLayout ==
    handed.op = "add"
        => LET d == FromBase64(handed.value)
               out == SealInPlace(handed.key, handed.nonce, handed.arg)
               output_len == Len(out)
           IN  /\ d.ok
               /\ Len(d.bytes) = NONCE_LEN + output_len
               /\ Len(d.bytes) > NONCE_LEN
               /\ SubSeq(d.bytes, 1, NONCE_LEN) = handed.nonce
               /\ SubSeq(d.bytes, NONCE_LEN + 1, Len(d.bytes)) = out
               /\ unseal(handed.key, handed.value).err # "length of decoded data is <= NONCE_LEN"

C10_Witness ==
    /\ handed.op = "add"
    /\ handed.arg = <<>>
    /\ FromBase64(handed.value).ok
    /\ Len(FromBase64(handed.value).bytes) = NONCE_LEN + TAG_LEN

===========================================================================
